---- MODULE Spec2Model ----
(***************************************************************************)
(* A model of ZBinaryReader.hpp: the byte sources (BufferSource,           *)
(* FileSource, CoverageTrackingSource<S>) and the typed BinaryReader       *)
(* layered on them.                                                        *)
(*                                                                         *)
(* One reader over one source is modelled.  The source's bytes are the     *)
(* sequence `buffer` (the memory region of a BufferSource, the file        *)
(* content of a FileSource); offsets are 0-based as in the code, so the    *)
(* byte at offset i is buffer[i + 1].                                      *)
(*                                                                         *)
(* std::ifstream is modelled by its position and its iostate bits.  The    *)
(* FileSource constructor sets exceptions(failbit | badbit), so every      *)
(* stream operation that sets failbit throws std::ios_base::failure, and   *)
(* the bit stays set: nothing in the code calls clear().  Device errors    *)
(* (badbit) are not modelled.                                              *)
(*                                                                         *)
(* An operation whose behaviour is undefined (a memcpy from buffer[cur]    *)
(* with cur < 0, an accessPattern element outside the vector) has several  *)
(* outcomes: it returns with arbitrary bytes for the locations outside     *)
(* the object (ub = TRUE), or the process dies (status "crash").           *)
(***************************************************************************)
EXTENDS Integers, Sequences, FiniteSets, TLC

\* ---------------------------------------------------------------- bounds
MaxSize == 4        \* largest source size explored
MaxNeg == 1         \* seek offsets go down to -MaxNeg
MaxLen == 2         \* array lengths 0..MaxLen, string lengths 0..MaxLen + 1
MaxAlign == 3       \* alignments range over 1..MaxAlign
MaxCount == 2       \* an accessPattern element is incremented up to MaxCount
MaxCovSize == 2     \* largest size of a coverage-tracked source explored

\* The code tests a byte only against 0.  The byte at offset i of a source is
\* 0 or the non-zero value i + 1: non-zero bytes are pairwise distinct, so any
\* misplaced or reordered byte shows.  Bytes read from outside the source are
\* 0 or a value no source byte has.
Garbage == {0, 255}
Contents(n) == {b \in [1..n -> 0..n] : \A i \in 1..n : b[i] \in {0, i}}

\* Width of the uint64_t arithmetic of align / alignZeroPad.
U64Bits == 64

\* Width of an element of std::vector<char> accessPattern.
CharBits == 8

Endianness == {"LE", "BE"}
\* sizeof(T): a one-byte type (char) and a multi-byte one (int16_t)
ElemSizes == {1, 2}
Lens == 0..MaxLen
CharCounts == 0..(MaxLen + 1)
SeekOffsets == (0 - MaxNeg)..(MaxSize + 1)
Alignments == 1..MaxAlign

\* Exceptions an operation can end with.
Throws == {"OutOfBounds", "IosFailure", "DoubleRead", "NullInString",
           "NonZeroPadding", "BadCast"}

\* ---------------------------------------------------------------- helpers
Max(a, b) == IF a >= b THEN a ELSE b
Min(a, b) == IF a <= b THEN a ELSE b

\* std::rotate(data, data + 1, data + size) in the place of std::reverse
reverseEndianness_rotate(s) ==
    [i \in 1..Len(s) |-> IF i < Len(s) THEN s[i + 1] ELSE s[1]]

\* std::reverse(data, data + size)
reverseEndianness(s) == [i \in 1..Len(s) |-> s[Len(s) + 1 - i]]

\* for(i < len) reverseEndianness(arr[i]): each element of esz bytes on its own
ReverseEach(s, esz) ==
    [i \in 1..Len(s) |->
        LET e == (i - 1) \div esz
            k == (i - 1) % esz
        IN  s[e * esz + (esz - 1 - k) + 1]]

VARIABLES
    backend,        \* "buffer" (BufferSource) or "file" (FileSource)
    tracked,        \* TRUE: the source is a CoverageTrackingSource<backend>
    buffer,         \* BufferSource::buffer[0 .. bufferSize) / the file's content
    cur,            \* BufferSource::cur / the position of FileSource::ifs
    curEdge,        \* the int64_t cur is counted from: "zero" (the value is
                    \* cur), "max" (INT64_MAX + cur, cur <= 0) or "min"
                    \* (INT64_MIN + cur, cur >= 0); 2^63 is kept symbolic
    ifsState,       \* iostate bits set on FileSource::ifs
    accessPattern,  \* CoverageTrackingSource::accessPattern
    alive,          \* FALSE once the process has died
    pc,             \* "idle", or "readCString" inside the loop of readCString
    readBuffer,     \* readCString's local readBuffer
    sink_i,         \* the loop counter i of sink<T>(len)
    last,           \* the last call of the reader and its outcome
    consumed,       \* history: the offsets a read of the tracked source's
                    \* backend has delivered since the wrapper was created
    countCap        \* exploration: a call that takes an accessPattern element
                    \* above countCap is not followed

vars == <<backend, tracked, buffer, cur, curEdge, ifsState, accessPattern, alive, pc,
          readBuffer, sink_i, last, consumed, countCap>>

bufferSize == Len(buffer)

\* The source bytes at offsets [lo, hi).
Bytes(lo, hi) == SubSeq(buffer, lo + 1, hi)

NoCall ==
    [op |-> "none", pre |-> 0, edge |-> "zero", esz |-> 0, len |-> 0, en |-> "LE",
     status |-> "ok", ub |-> FALSE, out |-> <<>>]

InitCommon ==
    /\ backend \in {"buffer", "file"}
    /\ buffer \in UNION {Contents(n) : n \in 0..MaxSize}
    /\ cur = 0
    /\ curEdge = "zero"
    /\ ifsState = {}
    /\ alive = TRUE
    /\ pc = "idle"
    /\ readBuffer = <<>>
    /\ sink_i = 0
    /\ last = NoCall
    /\ consumed = {}

\* BinaryReader(const char* data, int64_t data_size) / BinaryReader(path)
Init ==
    /\ InitCommon
    /\ tracked = FALSE
    /\ accessPattern = <<>>
    /\ countCap = MaxCount

\* BinaryReader(std::make_unique<CoverageTrackingSource<Source>>(...)).
\* The tracking never looks at a byte's value and alignZeroPad only tests it
\* against 0: the sources explored hold zeros only, non-zero bytes only, or
\* non-zero bytes at the even offsets and zeros at the odd ones.
InitCoverage ==
    /\ InitCommon
    /\ Len(buffer) <= MaxCovSize
    /\ \/ \A k \in 1..Len(buffer) : buffer[k] = 0
       \/ \A k \in 1..Len(buffer) : buffer[k] # 0
       \/ \A k \in 1..Len(buffer) : (buffer[k] # 0) <=> (k % 2 = 1)
    /\ tracked = TRUE
    /\ accessPattern = [i \in 1..Len(buffer) |-> 0]
    /\ countCap = MaxCount

\* ------------------------------------------------------------ the sources
\* What a call on the source leaves behind.
Outcome(status, ub, c, st, out) ==
    [status |-> status, ub |-> ub, cur |-> c, edge |-> curEdge, st |-> st,
     out |-> out, ap |-> accessPattern, rd |-> {}]

Returned(r) == r.status = "ok"

\* cur + len of the bounds check leaves the range of int64_t: with cur =
\* INT64_MAX + c the sum is INT64_MAX + (c + len).
BufferSource_overflows(c, len) == curEdge = "max" /\ c + len > 0

\* if(cur + len > bufferSize) throw std::runtime_error("Out of bounds read")
\* for a sum inside the range of int64_t: one counted from INT64_MAX is above
\* every size, one counted from INT64_MIN below.
BufferSource_outOfBounds(c, len) ==
    IF curEdge = "zero" THEN c + len > bufferSize
    ELSE curEdge = "max" /\ ~BufferSource_overflows(c, len)

\* memcpy(dst, &(buffer[c]), len) when the bounds check has passed.  With
\* c < 0 the bytes below the buffer are read: any values, or a fault; so are,
\* from a position counted from INT64_MAX or INT64_MIN, bytes far from it.
BufferSource_memcpy(c, len) ==
    IF curEdge # "zero" /\ len > 0
    THEN {[status |-> "ok", ub |-> TRUE, out |-> g] : g \in [1..len -> Garbage]}
         \cup {[status |-> "crash", ub |-> TRUE, out |-> <<>>]}
    ELSE IF c >= 0 \/ len = 0
    THEN {[status |-> "ok", ub |-> FALSE, out |-> Bytes(c, c + len)]}
    ELSE LET k == Min(len, 0 - c)
         IN  {[status |-> "ok", ub |-> TRUE,
               out |-> [i \in 1..len |-> IF i <= k THEN g[i] ELSE buffer[c + i]]]
                 : g \in [1..k -> Garbage]}
             \cup {[status |-> "crash", ub |-> TRUE, out |-> <<>>]}

\* The signed sum cur + len overflows: the comparison can come out either
\* way.  Taken as true the call throws; taken as false (the sum wrapped to
\* INT64_MIN + (c + len - 1)) the copy is made and `advance` tells whether
\* cur += len follows, wrapping the same way.
BufferSource_overflowed(c, len, advance) ==
    {Outcome("OutOfBounds", TRUE, c, {}, <<>>)}
    \cup {IF m.status = "ok" /\ advance
          THEN [Outcome("ok", TRUE, c + len - 1, {}, m.out) EXCEPT !.edge = "min"]
          ELSE Outcome(m.status, TRUE, c, {}, m.out)
            : m \in BufferSource_memcpy(c, len)}

BufferSource_read(c, len) ==
    IF BufferSource_overflows(c, len)
    THEN BufferSource_overflowed(c, len, TRUE)
    ELSE IF BufferSource_outOfBounds(c, len)
    THEN {Outcome("OutOfBounds", FALSE, c, {}, <<>>)}
    ELSE {Outcome(m.status, m.ub, IF m.status = "ok" THEN c + len ELSE c, {}, m.out)
            : m \in BufferSource_memcpy(c, len)}

BufferSource_peek(c, len) ==
    IF BufferSource_overflows(c, len)
    THEN BufferSource_overflowed(c, len, FALSE)
    ELSE IF BufferSource_outOfBounds(c, len)
    THEN {Outcome("OutOfBounds", FALSE, c, {}, <<>>)}
    ELSE {Outcome(m.status, m.ub, c, {}, m.out) : m \in BufferSource_memcpy(c, len)}

\* cur = offset; // Seeking to OOB is not an error
BufferSource_seek(c, offset) ==
    {[Outcome("ok", FALSE, offset, {}, <<>>) EXCEPT !.edge = "zero"]}

\* cur = offset for offset = INT64_MAX - k
BufferSource_seekInt64Max(c, k) ==
    {[Outcome("ok", FALSE, 0 - k, {}, <<>>) EXCEPT !.edge = "max"]}

\* FileSource::read on a stream without ifs.exceptions(failbit | badbit): a
\* short read sets the bits and returns, the rest of dst keeping its zeros.
FileSource_read_noExceptions(c, st, len) ==
    LET got == IF st # {} THEN <<>> ELSE Bytes(c, Min(c + len, bufferSize))
    IN  IF Len(got) = len /\ st = {}
        THEN {Outcome("ok", FALSE, c + len, {}, got)}
        ELSE {Outcome("ok", FALSE, IF st # {} THEN c ELSE Max(c, bufferSize),
                      st \cup {"eofbit", "failbit"},
                      [i \in 1..len |-> IF i <= Len(got) THEN got[i] ELSE 0])}

\* ifs.read(dst, len): with a bit already set the sentry sets failbit and
\* throws; otherwise up to len bytes are extracted until the end of the file,
\* and fewer than len of them sets eofbit | failbit and throws.  No bytes are
\* left from a position at or past the end, so only len = 0 succeeds there.
FileSource_read(c, st, len) ==
    IF st # {}
    THEN {Outcome("IosFailure", FALSE, c, st \cup {"failbit"}, <<>>)}
    ELSE IF len <= Max(0, bufferSize - c)
    THEN {Outcome("ok", FALSE, c + len, {}, Bytes(c, c + len))}
    ELSE {Outcome("IosFailure", FALSE, Max(c, bufferSize), {"eofbit", "failbit"},
                  Bytes(c, bufferSize))}

\* ifs.tellg() inside the noexcept tell(): with a bit set the sentry throws
\* and the exception leaves a noexcept function: std::terminate.
FileSource_tellThrows(st) == st # {}

\* ifs.seekg(offset, std::ios::beg): clears eofbit, then fails like read when
\* a bit is still set, and fails when the file cannot be positioned there.
FileSource_seek(c, st, offset) ==
    IF st \ {"eofbit"} # {}
    THEN {Outcome("IosFailure", FALSE, c, (st \ {"eofbit"}) \cup {"failbit"}, <<>>)}
    ELSE IF offset < 0
    THEN {Outcome("IosFailure", FALSE, c, {"failbit"}, <<>>)}
    ELSE {Outcome("ok", FALSE, offset, {}, <<>>)}

\* FileSource::peek without the seekg back to o.
FileSource_peek_noSeekBack(c, st, len) ==
    IF FileSource_tellThrows(st)
    THEN {Outcome("terminate", FALSE, c, st, <<>>)}
    ELSE FileSource_read(c, st, len)

\* auto o = tell(); ifs.read(dst, len); ifs.seekg(o, std::ios::beg);
FileSource_peek(c, st, len) ==
    IF FileSource_tellThrows(st)
    THEN {Outcome("terminate", FALSE, c, st, <<>>)}
    ELSE {IF Returned(r) THEN [r EXCEPT !.cur = c] ELSE r
            : r \in FileSource_read(c, st, len)}

\* Source::read / Source::peek / Source::seek of the wrapped backend.
Source_read(len) ==
    IF backend = "buffer" THEN BufferSource_read(cur, len)
    ELSE FileSource_read(cur, ifsState, len)

Source_peek(len) ==
    IF backend = "buffer" THEN BufferSource_peek(cur, len)
    ELSE FileSource_peek(cur, ifsState, len)

Source_seek(offset) ==
    IF backend = "buffer" THEN BufferSource_seek(cur, offset)
    ELSE FileSource_seek(cur, ifsState, offset)

\* tell() ends the process instead of returning.
Source_tellThrows == backend = "file" /\ FileSource_tellThrows(ifsState)

\* for(auto i = c; i < hi; ++i) if(accessPattern[i]++) throw "Double read";
\* The element, a char, is incremented before the throw and wraps at
\* 2^CharBits.  An index outside the vector reads and writes foreign memory:
\* either value of the test can come out.
RECURSIVE MarkAccess(_, _, _)
MarkAccess(ap, i, hi) ==
    IF i >= hi THEN {[ap |-> ap, dbl |-> FALSE, oob |-> FALSE]}
    ELSE IF i < 0 \/ i >= Len(ap)
    THEN {[ap |-> ap, dbl |-> TRUE, oob |-> TRUE]}
         \cup {[m EXCEPT !.oob = TRUE] : m \in MarkAccess(ap, i + 1, hi)}
    ELSE IF ap[i + 1] # 0
    THEN {[ap |-> [ap EXCEPT ![i + 1] = (@ + 1) % (2 ^ CharBits)],
           dbl |-> TRUE, oob |-> FALSE]}
    ELSE MarkAccess([ap EXCEPT ![i + 1] = 1], i + 1, hi)

\* A read that runs the marking loop first and calls Source::read only when
\* no offset had been read: a double read is refused before any transfer.
CoverageTrackingSource_read_markFirst(len) ==
    IF Source_tellThrows
    THEN {Outcome("terminate", FALSE, cur, ifsState, <<>>)}
    ELSE UNION {IF m.dbl
                THEN {[Outcome("DoubleRead", m.oob, cur, ifsState, <<>>)
                          EXCEPT !.ap = m.ap]}
                ELSE {[r EXCEPT !.ap = m.ap,
                                !.rd = IF Returned(r)
                                       THEN {o \in cur..(cur + len - 1) :
                                               0 <= o /\ o < bufferSize}
                                       ELSE {}]
                        : r \in Source_read(len)}
                  : m \in MarkAccess(accessPattern, cur, cur + len)}

\* auto cur = Source::tell(); Source::read(dst, len); then the marking loop.
CoverageTrackingSource_read(len) ==
    IF Source_tellThrows
    THEN {Outcome("terminate", FALSE, cur, ifsState, <<>>)}
    ELSE UNION {IF ~Returned(r) THEN {r}
                ELSE {[r EXCEPT !.ap = m.ap,
                                !.rd = {o \in cur..(cur + len - 1) :
                                          0 <= o /\ o < bufferSize},
                                !.ub = r.ub \/ m.oob,
                                !.status = IF m.dbl THEN "DoubleRead" ELSE "ok"]
                        : m \in MarkAccess(accessPattern, cur, cur + len)}
                  : r \in Source_read(len)}

\* source->read / source->peek / source->seek as the reader calls them.
source_read(len) ==
    IF tracked THEN CoverageTrackingSource_read(len) ELSE Source_read(len)

\* A peek of the decorator made of its own read and a seek back.
source_peek_viaRead(len) ==
    IF tracked
    THEN {IF Returned(r) THEN [r EXCEPT !.cur = cur] ELSE r
            : r \in CoverageTrackingSource_read(len)}
    ELSE Source_peek(len)

source_peek(len) == Source_peek(len)

source_seek(offset) == Source_seek(offset)

\* --------------------------------------------------------------- the reader
\* What tell() returns when it returns.
tell == cur

\* The reader is between calls and the process runs.
Ready == alive /\ pc = "idle"

CountsBounded(ap) == \A i \in 1..Len(ap) : ap[i] <= countCap

\* A call ends with outcome r of the source and leaves `out` to the caller.
Finish(op, pre, esz, len, en, status, r, out) ==
    /\ CountsBounded(r.ap)
    /\ cur' = r.cur
    /\ curEdge' = r.edge
    /\ ifsState' = r.st
    /\ accessPattern' = r.ap
    /\ alive' = (status \notin {"crash", "terminate"})
    /\ pc' = "idle"
    /\ readBuffer' = <<>>
    /\ sink_i' = 0
    /\ last' = [op |-> op, pre |-> pre,
                edge |-> IF pc = "idle" THEN curEdge ELSE last.edge,
                esz |-> esz, len |-> len, en |-> en,
                status |-> status, ub |-> r.ub, out |-> out]
    /\ consumed' = consumed \cup r.rd
    /\ UNCHANGED <<backend, tracked, buffer, countCap>>

\* The correction reversing the array as a whole instead of each element.
Corrected_wholeArray(bytes, esz, en) ==
    IF en = "BE" /\ esz > 1 THEN reverseEndianness(bytes) ELSE bytes

\* The in-place byte-order correction of read(T*, len) / peek(T*, len).
Corrected(bytes, esz, en) ==
    IF en = "BE" /\ esz > 1 THEN ReverseEach(bytes, esz) ELSE bytes

\* BinaryReader::seek(pos)
Seek(offset) ==
    /\ Ready
    /\ \E r \in source_seek(offset) :
         Finish("seek", cur, 1, offset, "LE", r.status, r, <<>>)

\* BinaryReader::seek(pos) on a BufferSource for pos = INT64_MAX - k
SeekInt64Max(k) ==
    /\ Ready
    /\ backend = "buffer" /\ ~tracked
    /\ \E r \in BufferSource_seekInt64Max(cur, k) :
         Finish("seek", cur, 1, 0 - k, "LE", r.status, r, <<>>)

\* BinaryReader::tell()
Tell ==
    /\ Ready
    /\ LET r == Outcome(IF Source_tellThrows THEN "terminate" ELSE "ok",
                        FALSE, cur, ifsState, <<>>)
       IN  Finish("tell", cur, 1, 0, "LE", r.status, r, <<>>)

\* BinaryReader::read<T, en>(T* arr, int64_t len), and read<T, en>() as len = 1
Read(esz, len, en) ==
    /\ Ready
    /\ \E r \in source_read(esz * len) :
         Finish("read", cur, esz, len, en, r.status, r,
                IF Returned(r) THEN Corrected(r.out, esz, en) ELSE r.out)

\* BinaryReader::peek<T, en>(T* arr, int64_t len), and peek<T, en>() as len = 1
Peek(esz, len, en) ==
    /\ Ready
    /\ \E r \in source_peek(esz * len) :
         Finish("peek", cur, esz, len, en, r.status, r,
                IF Returned(r) THEN Corrected(r.out, esz, en) ELSE r.out)

\* readString<len, en>() without the search for a null character.
ReadStringFixed_noNullCheck(len, en) ==
    /\ Ready
    /\ \E r \in source_read(len) :
         LET str == IF en = "LE" THEN reverseEndianness(r.out) ELSE r.out
         IN  Finish("readStringFixed", cur, 1, len, en, r.status, r,
                    IF Returned(r) THEN str ELSE <<>>)

\* readString<len, en>() that looks at the characters with peek and reads
\* them only when none of them is null.
ReadStringFixed_peeksFirst(len, en) ==
    /\ Ready
    /\ \E q \in source_peek(len) :
         LET str == IF en = "LE" THEN reverseEndianness(q.out) ELSE q.out
             hasNull == \E i \in 1..Len(str) : str[i] = 0
         IN  IF ~Returned(q) THEN Finish("readStringFixed", cur, 1, len, en, q.status, q, <<>>)
             ELSE IF hasNull
             THEN Finish("readStringFixed", cur, 1, len, en, "NullInString", q, <<>>)
             ELSE \E r \in source_read(len) :
                    Finish("readStringFixed", cur, 1, len, en, r.status, r,
                           IF Returned(r) THEN str ELSE <<>>)

\* BinaryReader::readString<len, en>(): the fixed-length string
ReadStringFixed(len, en) ==
    /\ Ready
    /\ \E r \in source_read(len) :
         LET str == IF en = "LE" THEN reverseEndianness(r.out) ELSE r.out
             hasNull == \E i \in 1..Len(str) : str[i] = 0
         IN  IF ~Returned(r) THEN Finish("readStringFixed", cur, 1, len, en, r.status, r, <<>>)
             ELSE IF hasNull
             THEN Finish("readStringFixed", cur, 1, len, en, "NullInString", r, <<>>)
             ELSE Finish("readStringFixed", cur, 1, len, en, "ok", r, str)

\* BinaryReader::readString<en>(size_t charCount)
ReadString(charCount, en) ==
    /\ Ready
    /\ \E r \in source_read(charCount) :
         LET str == IF en = "LE" THEN reverseEndianness(r.out) ELSE r.out
         IN  Finish("readString", cur, 1, charCount, en, r.status, r,
                    IF Returned(r) THEN str ELSE <<>>)

\* BinaryReader::readCString<en>(): entry, up to the do-while loop
ReadCString(en) ==
    /\ Ready
    /\ pc' = "readCString"
    /\ readBuffer' = <<>>
    /\ last' = [op |-> "readCString", pre |-> cur, edge |-> curEdge, esz |-> 1, len |-> 0, en |-> en,
                status |-> "running", ub |-> FALSE, out |-> <<>>]
    /\ UNCHANGED <<backend, tracked, buffer, cur, curEdge, ifsState, accessPattern,
                   alive, sink_i, consumed, countCap>>

\* The string built from the whole readBuffer, terminator included.
CStringResult_keepsTerminator(pushed, en) ==
    IF en = "LE" THEN reverseEndianness(pushed) ELSE pushed

\* std::string str(readBuffer.begin(), readBuffer.end() - 1), reversed as a
\* whole for Endianness::LE
CStringResult(pushed, en) ==
    LET str == SubSeq(pushed, 1, Len(pushed) - 1)
    IN  IF en = "LE" THEN reverseEndianness(str) ELSE str

\* One iteration of do { c = read<char>(); readBuffer.push_back(c); }
\* while(c != '\0'); and, when the loop ends, the rest of readCString.
ReadCStringLoop ==
    /\ alive
    /\ pc = "readCString"
    /\ \E r \in source_read(1) :
         LET rr == [r EXCEPT !.ub = r.ub \/ last.ub]
             pushed == Append(readBuffer, r.out[1])
         IN  IF ~Returned(r)
             THEN Finish("readCString", last.pre, 1, Len(readBuffer), last.en, r.status,
                         rr, <<>>)
             ELSE IF r.out[1] # 0
             THEN /\ CountsBounded(r.ap)
                  /\ cur' = r.cur
                  /\ curEdge' = r.edge
                  /\ ifsState' = r.st
                  /\ accessPattern' = r.ap
                  /\ readBuffer' = pushed
                  /\ last' = [last EXCEPT !.ub = rr.ub]
                  /\ consumed' = consumed \cup r.rd
                  /\ UNCHANGED <<backend, tracked, buffer, alive, pc, sink_i,
                                 countCap>>
             ELSE Finish("readCString", last.pre, 1, Len(pushed), last.en, "ok", rr,
                         CStringResult(pushed, last.en))

\* 2^e modulo n
RECURSIVE Pow2Mod(_, _)
Pow2Mod(e, n) == IF e = 0 THEN 1 % n ELSE (2 * Pow2Mod(e - 1, n)) % n

\* uint64_t pos = tell(); uint64_t padding_len = (alignment - pos) % alignment;
\* The subtraction is taken modulo 2^64 before the remainder is: with
\* pos > alignment it wraps to 2^64 - (pos - alignment).
PaddingLen(alignment, pos) ==
    LET d == alignment - pos
    IN  IF d >= 0 THEN d % alignment
        ELSE (Pow2Mod(U64Bits, alignment) + (d % alignment)) % alignment

\* How align<alignment>() can end: the status of the call and what the
\* source is left with.  tell() on a failed file stream ends the process.
align_ends(alignment) ==
    IF Source_tellThrows
    THEN {[status |-> "terminate",
           r |-> Outcome("terminate", FALSE, cur, ifsState, <<>>)]}
    ELSE {[status |-> r.status, r |-> r]
            : r \in source_read(PaddingLen(alignment, tell))}

\* BinaryReader::align<alignment>()
Align(alignment) ==
    /\ Ready
    /\ \E e \in align_ends(alignment) :
         Finish("align", cur, 1, alignment, "LE", e.status, e.r, <<>>)

\* The search taking c == 0 for its predicate.
NonZeroFound_zeroFound(zero) == \E k \in 1..Len(zero) : zero[k] = 0

\* std::find_if(std::begin(zero), &zero[padding_len], c != 0) finds a byte
NonZeroFound(zero) == \E k \in 1..Len(zero) : zero[k] # 0

\* How alignZeroPad<alignment>() can end: as align, and after a read that
\* has returned, with the throw for a non-zero byte among those read.
alignZeroPad_ends(alignment) ==
    IF Source_tellThrows
    THEN {[status |-> "terminate",
           r |-> Outcome("terminate", FALSE, cur, ifsState, <<>>)]}
    ELSE {[status |-> IF Returned(r) /\ NonZeroFound(r.out) THEN "NonZeroPadding"
                      ELSE r.status,
           r |-> r]
            : r \in source_read(PaddingLen(alignment, tell))}

\* BinaryReader::alignZeroPad<alignment>()
AlignZeroPad(alignment) ==
    /\ Ready
    /\ \E e \in alignZeroPad_ends(alignment) :
         Finish("alignZeroPad", cur, 1, alignment, "LE", e.status, e.r, <<>>)

\* sink<T>() that skips the value with seek(tell() + sizeof(T)).
SinkOne_viaSeek(esz) ==
    /\ Ready
    /\ \E r \in source_seek(cur + esz) :
         Finish("sinkOne", cur, esz, 1, "LE", r.status, r, <<>>)

\* BinaryReader::sink<T>(): static_cast<void>(read<T>())
SinkOne(esz) ==
    /\ Ready
    /\ \E r \in source_read(esz) :
         Finish("sinkOne", cur, esz, 1, "LE", r.status, r, <<>>)

\* BinaryReader::sink<T>(len): entry, up to the first test of i < len
Sink(esz, len) ==
    /\ Ready
    /\ IF len <= 0
       THEN Finish("sink", cur, esz, len, "LE", "ok",
                   Outcome("ok", FALSE, cur, ifsState, <<>>), <<>>)
       ELSE /\ pc' = "sink"
            /\ sink_i' = 0
            /\ last' = [op |-> "sink", pre |-> cur, edge |-> curEdge, esz |-> esz, len |-> len,
                        en |-> "LE", status |-> "running", ub |-> FALSE,
                        out |-> <<>>]
            /\ UNCHANGED <<backend, tracked, buffer, cur, curEdge, ifsState,
                           accessPattern, alive, readBuffer, consumed, countCap>>

\* A sink<T>(len) that seeks back to where it began when a read<T>() fails.
SinkLoop_rewinds ==
    /\ alive
    /\ pc = "sink"
    /\ \E r \in source_read(last.esz) :
         LET rr == [r EXCEPT !.ub = r.ub \/ last.ub]
         IN  IF ~Returned(r)
             THEN Finish("sink", last.pre, last.esz, last.len, "LE", r.status,
                         [rr EXCEPT !.cur = last.pre], <<>>)
             ELSE IF sink_i + 1 < last.len
             THEN /\ CountsBounded(r.ap)
                  /\ cur' = r.cur
                  /\ curEdge' = r.edge
                  /\ ifsState' = r.st
                  /\ accessPattern' = r.ap
                  /\ sink_i' = sink_i + 1
                  /\ last' = [last EXCEPT !.ub = rr.ub]
                  /\ consumed' = consumed \cup r.rd
                  /\ UNCHANGED <<backend, tracked, buffer, alive, pc, readBuffer,
                                 countCap>>
             ELSE Finish("sink", last.pre, last.esz, last.len, "LE", "ok", rr, <<>>)

\* One iteration of for(int i = 0; i < len; ++i) static_cast<void>(read<T>());
\* with the test of i < len that follows it.
SinkLoop ==
    /\ alive
    /\ pc = "sink"
    /\ \E r \in source_read(last.esz) :
         LET rr == [r EXCEPT !.ub = r.ub \/ last.ub]
         IN  IF ~Returned(r)
             THEN Finish("sink", last.pre, last.esz, last.len, "LE", r.status, rr, <<>>)
             ELSE IF sink_i + 1 < last.len
             THEN /\ CountsBounded(r.ap)
                  /\ cur' = r.cur
                  /\ curEdge' = r.edge
                  /\ ifsState' = r.st
                  /\ accessPattern' = r.ap
                  /\ sink_i' = sink_i + 1
                  /\ last' = [last EXCEPT !.ub = rr.ub]
                  /\ consumed' = consumed \cup r.rd
                  /\ UNCHANGED <<backend, tracked, buffer, alive, pc, readBuffer,
                                 countCap>>
             ELSE Finish("sink", last.pre, last.esz, last.len, "LE", "ok", rr, <<>>)

\* std::find(accessPattern.begin(), accessPattern.end(), 0) == end()
completeCoverageInternal == \A k \in 1..Len(accessPattern) : accessPattern[k] # 0

\* CoverageTrackingSource<Source>::completeCoverage(br): the dynamic_cast of
\* br->getSource() gives a null pointer unless the reader's source is a
\* CoverageTrackingSource<Source>.  The result is left as <<1>> or <<0>>.
CompleteCoverage(Source) ==
    /\ Ready
    /\ LET r == Outcome("ok", FALSE, cur, ifsState, <<>>)
       IN  IF ~(tracked /\ backend = Source)
           THEN Finish("completeCoverage", cur, 1, 0, "LE", "BadCast", r, <<>>)
           ELSE Finish("completeCoverage", cur, 1, 0, "LE", "ok", r,
                       IF completeCoverageInternal THEN <<1>> ELSE <<0>>)

Next ==
    \/ \E esz \in ElemSizes, len \in Lens, en \in Endianness : Read(esz, len, en)
    \/ \E esz \in ElemSizes, len \in Lens, en \in Endianness : Peek(esz, len, en)
    \/ \E o \in SeekOffsets : Seek(o)
    \/ Tell
    \/ \E len \in CharCounts, en \in Endianness : ReadStringFixed(len, en)
    \/ \E n \in CharCounts, en \in Endianness : ReadString(n, en)
    \/ \E en \in Endianness : ReadCString(en)
    \/ ReadCStringLoop
    \/ \E alignment \in Alignments : Align(alignment)
    \/ \E alignment \in Alignments : AlignZeroPad(alignment)
    \/ \E esz \in ElemSizes : SinkOne(esz)
    \/ \E esz \in ElemSizes, len \in Lens : Sink(esz, len)
    \/ SinkLoop
    \/ \E Source \in {"buffer", "file"} : CompleteCoverage(Source)

Spec == Init /\ [][Next]_vars

\* The calls made on a coverage-tracked source: the typed reads and peeks
\* (byte order plays no part in the tracking: LE), seeks from the start of
\* the source to one past its end, alignment, sink and the coverage query.
NextCoverage ==
    \/ \E esz \in ElemSizes, len \in Lens : Read(esz, len, "LE")
    \/ \E esz \in ElemSizes, len \in Lens : Peek(esz, len, "LE")
    \/ \E o \in 0..(MaxCovSize + 1) : Seek(o)
    \/ \E alignment \in Alignments : Align(alignment)
    \/ \E alignment \in Alignments : AlignZeroPad(alignment)
    \/ \E esz \in ElemSizes : SinkOne(esz)
    \/ \E esz \in ElemSizes, len \in Lens : Sink(esz, len)
    \/ SinkLoop
    \/ \E Source \in {"buffer", "file"} : CompleteCoverage(Source)

SpecCoverage == InitCoverage /\ [][NextCoverage]_vars

\* A coverage-tracked source of one byte, read again and again: the access
\* counter of its offset is followed through all its 2^CharBits values.
InitRereads ==
    /\ backend \in {"buffer", "file"}
    /\ buffer \in Contents(1)
    /\ cur = 0
    /\ curEdge = "zero"
    /\ ifsState = {}
    /\ alive = TRUE
    /\ pc = "idle"
    /\ readBuffer = <<>>
    /\ sink_i = 0
    /\ last = NoCall
    /\ consumed = {}
    /\ tracked = TRUE
    /\ accessPattern = [k \in 1..Len(buffer) |-> 0]
    /\ countCap = 2 ^ CharBits

\* read<char>(), seek(0) and the coverage query
NextRereads ==
    \/ Read(1, 1, "LE")
    \/ Seek(0)
    \/ \E Source \in {"buffer", "file"} : CompleteCoverage(Source)

SpecRereads == InitRereads /\ [][NextRereads]_vars

\* A source long enough to hold a position that is a multiple, other than
\* the alignment itself, of every alignment explored, and one byte after it:
\* its bytes are all zero or all non-zero.
AlignSize == 2 * MaxAlign + 1

InitAlign ==
    /\ backend \in {"buffer", "file"}
    /\ buffer \in {[k \in 1..AlignSize |-> 0], [k \in 1..AlignSize |-> k]}
    /\ cur = 0
    /\ curEdge = "zero"
    /\ ifsState = {}
    /\ alive = TRUE
    /\ pc = "idle"
    /\ readBuffer = <<>>
    /\ sink_i = 0
    /\ last = NoCall
    /\ consumed = {}
    /\ tracked = FALSE
    /\ accessPattern = <<>>
    /\ countCap = MaxCount

SpecAlign == InitAlign /\ [][Next]_vars

\* The reader runs on one thread: a loop that has been entered keeps running.
\* A coverage-tracked source read after seeks to any offset, the negative
\* ones and the ones past the end included.
NextSeekRead ==
    \/ \E o \in SeekOffsets : Seek(o)
    \/ \E esz \in ElemSizes, len \in Lens : Read(esz, len, "LE")

SpecSeekRead == InitCoverage /\ [][NextSeekRead]_vars

\* Fixed-length strings read from a coverage-tracked source.
NextStrings ==
    \/ \E o \in 0..(MaxCovSize + 1) : Seek(o)
    \/ \E len \in Lens, en \in Endianness : ReadStringFixed(len, en)

SpecStrings == InitCoverage /\ [][NextStrings]_vars

\* A BufferSource sought to offsets at both ends of the range of int64_t.
\* A read that the wrapped bounds check lets through leaves cur counted from
\* INT64_MIN; reads go on from there for MaxSize bytes.
InitInt64 == Init /\ backend = "buffer"

NextInt64 ==
    \/ \E o \in SeekOffsets : Seek(o)
    \/ \E k \in Lens : SeekInt64Max(k)
    \/ \E esz \in ElemSizes, len \in Lens :
         /\ curEdge = "min" => cur + esz * len <= MaxSize
         /\ Read(esz, len, "LE")
    \/ \E esz \in ElemSizes, len \in Lens : Peek(esz, len, "LE")

SpecInt64 == InitInt64 /\ [][NextInt64]_vars

FairSpec == Spec /\ WF_vars(ReadCStringLoop)

\* ------------------------------------------------------------------ claims
\* The last call was a typed read or peek; it asked for NBytes bytes.
IsReadOrPeek == last.op \in {"read", "peek"}
NBytes == last.esz * last.len

\* tell() returns v.
TellIs(v) == ~Source_tellThrows /\ tell = v

\* Some byte at an offset of [lo, hi) is the null byte.
HasNull(lo, hi) == \E i \in lo..(hi - 1) : buffer[i + 1] = 0

\* The offset of the first null byte at or after p (HasNull(p, bufferSize)).
FirstNull(p) ==
    CHOOSE q \in p..(bufferSize - 1) :
        buffer[q + 1] = 0 /\ ~HasNull(p, q)

\* C1: a read or peek of n >= 0 bytes from a position p >= 0 with
\* p + n > size fails, and no read or peek from p >= 0 delivers more bytes
\* than the source holds from p on.
C1_PastEndFails ==
    (IsReadOrPeek /\ last.pre >= 0) =>
        /\ last.pre + NBytes > bufferSize => last.status # "ok"
        /\ Len(last.out) <= Max(0, bufferSize - last.pre)

\* C2: a read that succeeds advances the position by exactly the bytes asked
\* for, and after a read that fails tell() is what it was before the call.
C2_ReadAdvancesOrStays ==
    last.op = "read" =>
        /\ last.status = "ok" => TellIs(last.pre + NBytes)
        /\ last.status \in Throws => TellIs(last.pre)

\* C3: after a successful peek tell() is what it was before it, and a read of
\* the same type, length and byte order made right after the peek succeeds
\* and returns the values the peek returned.
C3_PeekNonConsuming ==
    (last.op = "peek" /\ last.status = "ok" /\ last.pre >= 0) =>
        /\ TellIs(last.pre)
        /\ \A r \in source_read(NBytes) :
             Returned(r) /\ Corrected(r.out, last.esz, last.en) = last.out

C3_Witness ==
    /\ last.op = "peek" /\ last.status = "ok"
    /\ backend = "file" /\ last.pre > 0
    /\ last.esz = 2 /\ last.len = 1 /\ last.en = "BE"
    /\ ~HasNull(last.pre, last.pre + NBytes)

\* C4: a seek to an offset o >= 0 never fails, and tell() is o after it.
C4_SeekNeverFails ==
    (last.op = "seek" /\ last.len >= 0) =>
        last.status = "ok" /\ TellIs(last.len)

\* C5: a read or peek of at least one byte from a negative position fails.
C5_NegativeReadFails ==
    (IsReadOrPeek /\ last.pre < 0 /\ NBytes > 0) => last.status \in Throws

\* C6: a successful read of len elements of esz bytes from p >= 0 returns, as
\* byte k of element i, the source byte at p + i*esz + k for little-endian
\* (and for esz = 1), and the source byte at p + i*esz + (esz - 1 - k) for
\* big-endian; a read inside a buffer source succeeds.
C6_ElementwiseOrder ==
    (last.op = "read" /\ last.pre >= 0) =>
        /\ last.status = "ok" =>
             /\ Len(last.out) = NBytes
             /\ \A i \in 0..(last.len - 1), k \in 0..(last.esz - 1) :
                  last.out[i * last.esz + k + 1] =
                      IF last.en = "BE" /\ last.esz > 1
                      THEN buffer[last.pre + i * last.esz + (last.esz - 1 - k) + 1]
                      ELSE buffer[last.pre + i * last.esz + k + 1]
        /\ (backend = "buffer" /\ last.pre + NBytes <= bufferSize) => last.status = "ok"

C6_Witness ==
    /\ last.op = "read" /\ last.status = "ok" /\ last.pre >= 0
    /\ last.esz = 2 /\ last.len = 2 /\ last.en = "BE"
    /\ ~HasNull(last.pre, last.pre + NBytes)

\* C7: readString(n) and readString<N>() that get their n bytes from p >= 0
\* leave the position at p + n; readString(n) returns the bytes, unchanged
\* for big-endian and reversed as a whole for little-endian, whether or not
\* a null byte is among them; readString<N>() fails with invalid content
\* exactly when one of the N bytes is null, and returns the same string as
\* readString(N) otherwise.  Inside a buffer source both get their bytes.
C7_Strings ==
    LET p == last.pre
        n == last.len
        str == IF last.en = "LE" THEN [i \in 1..n |-> buffer[p + n + 1 - i]]
               ELSE [i \in 1..n |-> buffer[p + i]]
    IN  /\ (last.op = "readString" /\ p >= 0) =>
            /\ last.status = "ok" => TellIs(p + n) /\ last.out = str
            /\ (backend = "buffer" /\ p + n <= bufferSize) => last.status = "ok"
        /\ (last.op = "readStringFixed" /\ p >= 0) =>
            /\ last.status \in {"ok", "NullInString"} =>
                 /\ TellIs(p + n)
                 /\ last.status = "NullInString" <=> HasNull(p, p + n)
                 /\ last.status = "ok" => last.out = str
            /\ (backend = "buffer" /\ p + n <= bufferSize) =>
                 last.status \in {"ok", "NullInString"}

C7_Witness ==
    /\ last.op = "readString" /\ last.status = "ok"
    /\ last.en = "LE" /\ last.len = 3 /\ last.pre > 0
    /\ last.out[1] # 0 /\ last.out[2] = 0 /\ last.out[3] # 0

\* C8: when the first null byte at or after p >= 0 is at offset q < size,
\* readCString() returns the bytes [p, q), unchanged for big-endian and
\* reversed as a whole for little-endian, and leaves the position at q + 1.
\* It can fail only on a file whose stream had failed before the call, and
\* then on its first byte.
C8_CString ==
    (last.op = "readCString" /\ pc = "idle" /\ last.pre >= 0
       /\ HasNull(last.pre, bufferSize)) =>
        LET p == last.pre
            q == FirstNull(p)
            n == q - p
        IN  /\ last.status = "ok" =>
                 /\ TellIs(q + 1)
                 /\ last.out = IF last.en = "LE" THEN [i \in 1..n |-> buffer[p + n + 1 - i]]
                               ELSE [i \in 1..n |-> buffer[p + i]]
            /\ last.status # "ok" =>
                 backend = "file" /\ last.status = "IosFailure" /\ last.len = 0

C8_Witness ==
    /\ last.op = "readCString" /\ pc = "idle" /\ last.status = "ok"
    /\ last.en = "LE" /\ last.pre > 0 /\ Len(last.out) = 2

\* C9: readCString() ends; when no null byte is in [p, size) for its starting
\* position p >= 0 (p >= size included), it ends with an out-of-bounds or
\* end-of-stream failure and returns no string.
C9_CStringEnds ==
    /\ [](  (last.op = "readCString" /\ pc = "idle" /\ last.pre >= 0
              /\ ~HasNull(last.pre, bufferSize))
          => (last.status \in {"OutOfBounds", "IosFailure"} /\ last.out = <<>>))
    /\ (pc = "readCString") ~> (pc = "idle")

C9_Witness ==
    /\ last.op = "readCString" /\ pc = "idle"
    /\ last.status \in {"OutOfBounds", "IosFailure"}
    /\ last.pre >= 0 /\ last.len = 2 /\ ~HasNull(last.pre, bufferSize)

\* C10: a successful align<N>() from p >= 0 leaves tell() at
\* p + ((N - p) mod N), the smallest multiple of N that is >= p.
C10_AlignLands ==
    (last.op = "align" /\ last.status = "ok" /\ last.pre >= 0) =>
        /\ TellIs(last.pre + ((last.len - last.pre) % last.len))
        /\ tell % last.len = 0

\* C11: a successful align<N>() from a position p >= 0 with p mod N = 0
\* consumes no bytes and leaves tell() = p; and after any successful
\* align<N>() a second align<N>() changes neither the position nor the
\* coverage marks.
C11_AlignIdempotent ==
    (last.op = "align" /\ last.status = "ok" /\ last.pre >= 0) =>
        /\ last.pre % last.len = 0 => TellIs(last.pre)
        /\ \A r \in source_read(PaddingLen(last.len, tell)) :
             Returned(r) /\ r.cur = cur /\ r.ap = accessPattern

\* The last call was align<N>() or alignZeroPad<N>(); N is last.len.
IsAlign == last.op \in {"align", "alignZeroPad"}

\* The padding from p to the next multiple of N: (N - p) mod N.
Padding(N, p) == (N - p) % N

\* C12: align<N>() and alignZeroPad<N>() from p >= 0 fail with an
\* out-of-bounds or end-of-stream error whenever p + padding > size, and
\* alignZeroPad<N>() never reports invalid padding then.
C12_AlignPastEndFails ==
    (IsAlign /\ last.pre >= 0
       /\ last.pre + Padding(last.len, last.pre) > bufferSize) =>
        last.status \in {"OutOfBounds", "IosFailure"}

\* The bytes at the offsets of [lo, hi) that lie inside the source are zero.
AllZero(lo, hi) ==
    \A o \in lo..(hi - 1) : (0 <= o /\ o < bufferSize) => buffer[o + 1] = 0

\* C13: at a position p >= 0 where the padding bytes [p, p + pad) are all
\* zero (pad being the padding the call computes), alignZeroPad<N>() ends
\* exactly as align<N>() does: the same success or failure, the same final
\* position and stream state, the same coverage marks.  Such a call, once
\* made, has not reported invalid padding, and when it succeeded it has left
\* tell() at p + pad with every padding offset marked.
C13_ZeroPadAsAlign ==
    /\ (Ready /\ cur >= 0) =>
          \A N \in Alignments :
              AllZero(cur, cur + PaddingLen(N, cur)) =>
                  alignZeroPad_ends(N) = align_ends(N)
    /\ (last.op = "alignZeroPad" /\ last.pre >= 0
          /\ AllZero(last.pre, last.pre + PaddingLen(last.len, last.pre))) =>
          /\ last.status # "NonZeroPadding"
          /\ last.status = "ok" =>
                /\ TellIs(last.pre + PaddingLen(last.len, last.pre))
                /\ tracked =>
                      \A o \in last.pre..(tell - 1) : accessPattern[o + 1] # 0

C13_Witness ==
    /\ last.op = "alignZeroPad" /\ last.status = "ok" /\ tracked
    /\ last.pre >= 0 /\ tell > last.pre
    /\ \E k \in 1..bufferSize : buffer[k] # 0

\* C14: alignZeroPad<N>() from p >= 0 whose padding [p, p + pad) lies inside
\* the source and holds a non-zero byte fails with invalid padding, and
\* tell() after the failure is p.
C14_BadPaddingNoEffect ==
    (last.op = "alignZeroPad" /\ last.pre >= 0
       /\ last.pre + Padding(last.len, last.pre) <= bufferSize
       /\ ~AllZero(last.pre, last.pre + Padding(last.len, last.pre))) =>
        last.status = "NonZeroPadding" /\ TellIs(last.pre)

\* The offsets the access-count map records as read.
Marked == {o \in 0..(Len(accessPattern) - 1) : accessPattern[o + 1] # 0}

\* C15: on a coverage-tracked source the recorded coverage is exactly the
\* set of offsets consumed via read, and completeCoverage reports true if
\* and only if every offset of [0, size) has been consumed by a read.
C15_CoverageIsConsumed ==
    tracked =>
        /\ Marked = consumed
        /\ (last.op = "completeCoverage" /\ last.status = "ok") =>
              (last.out = <<1>> <=> \A o \in 0..(bufferSize - 1) : o \in consumed)

\* C16: on a coverage-tracked source a read of bytes that lie inside the
\* source, one of them at an offset an earlier read has consumed, fails with
\* a double-read violation, however many reads and violations came before.
C16_RereadFails ==
    [][(/\ Ready /\ tracked /\ last'.op = "read"
        /\ Read(last'.esz, last'.len, last'.en)
        /\ cur >= 0 /\ cur + last'.esz * last'.len <= bufferSize
        /\ \E o \in cur..(cur + last'.esz * last'.len - 1) : o \in consumed)
       => last'.status = "DoubleRead"]_vars

\* C17: a peek on a coverage-tracked source leaves the access-count map as
\* it is and never ends in a double-read violation, also over offsets
\* already read or already peeked; and after a peek that succeeded, a read
\* of any length ends exactly as it would have ended before the peek.
C17_PeekUntracked ==
    [][(/\ Ready /\ tracked /\ last'.op = "peek"
        /\ Peek(last'.esz, last'.len, last'.en))
       => /\ accessPattern' = accessPattern
          /\ consumed' = consumed
          /\ last'.status # "DoubleRead"
          /\ last'.status = "ok" =>
                \A n \in 0..(MaxCovSize + 1) : source_read(n)' = source_read(n)]_vars

C17_Witness ==
    /\ last.op = "peek" /\ last.status = "ok" /\ tracked
    /\ NBytes = 2 /\ last.pre = 0
    /\ accessPattern[1] = 0 /\ accessPattern[2] # 0

\* The last call was sink<T>() or sink<T>(len) and has ended; it was to sink
\* NBytes bytes.
IsSink == last.op \in {"sink", "sinkOne"} /\ pc = "idle"

\* A step of sink<T>() or of the loop of sink<T>(len): one read<T>() of
\* sizeof(T) = last'.esz bytes.
SinkStep ==
    \/ pc = "sink" /\ SinkLoop
    \/ Ready /\ last'.op = "sinkOne" /\ SinkOne(last'.esz)

SinkStepSize == last'.esz

\* C18: sink<T>() and sink<T>(len) from p >= 0 that succeed leave the
\* position at p + sizeof(T) and p + len * sizeof(T), where tell() reports it
\* when an element was sunk; sinking at least one element past
\* the end fails; on a coverage-tracked source the offsets sunk are marked
\* and consumed as by read<T>, so that a later read of any of them is a
\* double read, and sinking an offset already read fails with a double-read
\* violation.
C18_SinkAsRead ==
    /\ []((IsSink /\ last.pre >= 0) =>
            /\ last.status = "ok" =>
                  /\ tell = last.pre + NBytes
                  /\ NBytes >= 1 => ~Source_tellThrows
                  /\ tracked =>
                        \A o \in last.pre..(last.pre + NBytes - 1) :
                            /\ o \in consumed
                            /\ accessPattern[o + 1] # 0
                            /\ \A m \in MarkAccess(accessPattern, o, o + 1) : m.dbl
            /\ (NBytes >= 1 /\ last.pre + NBytes > bufferSize) =>
                  last.status # "ok")
    /\ [][(/\ SinkStep
            /\ tracked /\ cur >= 0 /\ cur + SinkStepSize <= bufferSize
            /\ \E o \in cur..(cur + SinkStepSize - 1) : accessPattern[o + 1] # 0)
           => last'.status = "DoubleRead"]_vars

C18_Witness ==
    /\ IsSink /\ last.op = "sink" /\ last.status = "ok" /\ tracked
    /\ last.esz = 1 /\ last.len = 2 /\ last.pre = 0 /\ bufferSize = 2
    /\ completeCoverageInternal

\* The bytes of s in the opposite order.
Mirror(s) == [k \in 1..Len(s) |-> s[Len(s) + 1 - k]]

\* C19: reversing the byte order twice gives the original bytes, for every
\* byte range and string a call has returned; a big-endian read or peek of
\* elements of more than one byte returns each element as the mirror image
\* of the bytes the little-endian one returns, a little-endian string is
\* the mirror image of the big-endian one, and reversing either again gives
\* the other.
C19_ReverseInvolution ==
    /\ reverseEndianness(reverseEndianness(last.out)) = last.out
    /\ (IsReadOrPeek /\ last.status = "ok" /\ last.pre >= 0 /\ last.esz > 1) =>
          LET le == Bytes(last.pre, last.pre + NBytes)
              elem(s, e) == SubSeq(s, e * last.esz + 1, (e + 1) * last.esz)
          IN  /\ ReverseEach(ReverseEach(last.out, last.esz), last.esz) = last.out
              /\ \A e \in 0..(last.len - 1) :
                    IF last.en = "BE"
                    THEN /\ elem(last.out, e) = Mirror(elem(le, e))
                         /\ reverseEndianness(elem(last.out, e)) = elem(le, e)
                    ELSE elem(last.out, e) = elem(le, e)
    /\ (last.op \in {"readString", "readStringFixed"} /\ last.status = "ok"
          /\ last.pre >= 0) =>
          LET be == Bytes(last.pre, last.pre + last.len)
          IN  IF last.en = "LE"
              THEN last.out = Mirror(be) /\ reverseEndianness(last.out) = be
              ELSE last.out = be

C19_Witness ==
    /\ last.op = "readString" /\ last.status = "ok" /\ last.en = "LE"
    /\ last.pre >= 0 /\ last.len = 3
    /\ \A k \in 1..3 : last.out[k] # 0

\* C20: in every state of a coverage-tracked source, after reads that
\* succeed or fail, peeks and seeks, every offset's access count is 0 or 1.
C20_CountsZeroOrOne ==
    tracked => \A k \in 1..Len(accessPattern) : accessPattern[k] \in {0, 1}

\* C21: when a read on a coverage-tracked source from p >= 0 ends in a
\* double-read violation, the backend's read has been made: the destination
\* holds the len bytes of [p, p + len) and tell() is p + len; and a read
\* whose backend read fails (out of bounds, end of stream) leaves the access
\* map as it was.
C21_DetectionPostHoc ==
    /\ []((tracked /\ last.op = "read" /\ last.status = "DoubleRead"
             /\ last.pre >= 0) =>
            /\ TellIs(last.pre + NBytes)
            /\ last.out = Bytes(last.pre, last.pre + NBytes))
    /\ [][(/\ Ready /\ tracked /\ last'.op = "read"
            /\ Read(last'.esz, last'.len, last'.en)
            /\ last'.status \in {"OutOfBounds", "IosFailure"})
           => accessPattern' = accessPattern]_vars

C21_Witness ==
    /\ tracked /\ last.op = "read" /\ last.status = "DoubleRead"
    /\ last.pre = 0 /\ NBytes = 2 /\ accessPattern[1] = 1 /\ accessPattern[2] # 0
    /\ \A k \in 1..2 : buffer[k] # 0

\* C22: a FileSource and a BufferSource over the same bytes cannot be told
\* apart.  A file-backed reader whose stream has never failed stands at the
\* position a buffer-backed reader has after the same calls; its next read,
\* peek, tell or seek to an offset >= 0 succeeds exactly when the
\* BufferSource call from that position does, returns the same bytes, and
\* tell() afterwards is the position the BufferSource is left at.
C22_BackendsEquivalent ==
    [][(/\ last'.op \in {"read", "peek", "seek", "tell"}
        /\ Ready /\ ~tracked /\ backend = "file" /\ ifsState = {} /\ cur >= 0
        /\ pc' = "idle"
        /\ last'.op = "seek" => last'.len >= 0)
       => LET n == last'.esz * last'.len
              onBuffer == CASE last'.op = "read" -> BufferSource_read(cur, n)
                            [] last'.op = "peek" -> BufferSource_peek(cur, n)
                            [] last'.op = "seek" -> BufferSource_seek(cur, last'.len)
                            [] OTHER -> {Outcome("ok", FALSE, cur, {}, <<>>)}
          IN  \A b \in onBuffer :
                /\ (last'.status = "ok") <=> Returned(b)
                /\ Returned(b) =>
                     last'.out = Corrected(b.out, last'.esz, last'.en)
                /\ ~Source_tellThrows'
                /\ tell' = b.cur]_vars

\* C23: a BufferSource read or peek of n >= 1 bytes from a position p with
\* p + n > size (as numbers, not as int64_t) throws "Out of bounds read":
\* from a position counted from zero when p + n is past the size, and from
\* every position counted from INT64_MAX, where p + n is beyond any size
\* whether or not it is beyond INT64_MAX.
C23_NoWrapAround ==
    (/\ IsReadOrPeek /\ backend = "buffer" /\ ~tracked /\ NBytes >= 1
     /\ \/ last.edge = "max"
        \/ last.edge = "zero" /\ last.pre + NBytes > bufferSize)
    => last.status = "OutOfBounds"

\* C24: the marking loop of a read on a coverage-tracked source, run over
\* [p, p + len) once the backend's read from p has returned, tests and
\* increments elements of accessPattern at indices in [0, size) only.
C24_MapAccessInRange ==
    [][(/\ last'.op = "read" /\ last'.status \in {"ok", "DoubleRead"}
        /\ Ready /\ tracked
        /\ Read(last'.esz, last'.len, last'.en))
       => \A m \in MarkAccess(accessPattern, cur, cur + last'.esz * last'.len) :
            ~m.oob]_vars

\* The whole elements of sizeof(T) = last.esz bytes between the position the
\* last call began at and the end: floor((size - p) / sizeof(T)).
ElementsLeft == (bufferSize - last.pre) \div last.esz

\* C25: sink<T>(len) is not all-or-nothing.  When it fails with "Out of
\* bounds read" on a buffer source from a position p in [0, size] with k =
\* floor((size - p) / sizeof(T)) < len, tell() afterwards is p + k*sizeof(T)
\* and, on a coverage-tracked source, the k*sizeof(T) offsets from p on are
\* marked as read.
C25_SinkPartial ==
    (/\ last.op = "sink" /\ pc = "idle" /\ backend = "buffer"
     /\ last.status = "OutOfBounds"
     /\ 0 <= last.pre /\ last.pre <= bufferSize
     /\ ElementsLeft < last.len)
    => /\ tell = last.pre + ElementsLeft * last.esz
       /\ tracked =>
            \A o \in last.pre..(last.pre + ElementsLeft * last.esz - 1) :
              o \in Marked

\* C25 as stated: for every p >= 0 and every failure of sink<T>(len).
C25_AsStated ==
    (/\ last.op = "sink" /\ pc = "idle" /\ backend = "buffer"
     /\ last.status \in Throws
     /\ 0 <= last.pre
     /\ ElementsLeft < last.len)
    => /\ tell = last.pre + ElementsLeft * last.esz
       /\ tracked =>
            \A o \in last.pre..(last.pre + ElementsLeft * last.esz - 1) :
              o \in Marked

C25_Witness ==
    /\ last.op = "sink" /\ pc = "idle" /\ backend = "buffer" /\ tracked
    /\ last.status = "OutOfBounds" /\ last.pre = 0 /\ last.esz = 1
    /\ last.len = 2 /\ ElementsLeft = 1 /\ tell = 1 /\ 0 \in Marked

\* C26: a readString<N>() on a coverage-tracked source from p >= 0 that
\* fails with invalid content has consumed its N bytes: tell() is p + N and
\* the offsets [p, p + N) are marked as read.  A seek to an offset >= 0
\* keeps the marks, and a readString<N>() with N >= 1 from a position whose
\* N offsets are all marked ends in a double-read violation: so does the
\* retry from p.
C26_FailedStringConsumed ==
    /\ []((tracked /\ last.op = "readStringFixed" /\ last.pre >= 0
             /\ last.status = "NullInString") =>
            /\ TellIs(last.pre + last.len)
            /\ \A o \in last.pre..(last.pre + last.len - 1) : o \in Marked)
    /\ [][(/\ last'.op = "seek" /\ last'.len >= 0
            /\ Ready /\ tracked /\ ~Source_tellThrows)
           => /\ accessPattern' = accessPattern
              /\ ~Source_tellThrows' /\ tell' = last'.len]_vars
    /\ [][(/\ last'.op = "readStringFixed" /\ last'.len >= 1
            /\ Ready /\ tracked /\ ~Source_tellThrows /\ cur >= 0
            /\ \A o \in cur..(cur + last'.len - 1) : o \in Marked
            /\ ReadStringFixed(last'.len, last'.en))
           => last'.status = "DoubleRead"]_vars

\* A failed readString<2>() from 0, a seek back to 0 and the retry.
C26_Witness ==
    /\ tracked /\ last.op = "readStringFixed" /\ last.status = "DoubleRead"
    /\ last.pre = 0 /\ last.len = 2
    /\ buffer[1] # 0 /\ buffer[2] = 0
    /\ accessPattern[1] = 2 /\ accessPattern[2] = 1

====
